---- MODULE Spec2Model ----
(***************************************************************************)
(* Playback generation of ChartAnalyzer: PlaybackGeneratorWorker.run()     *)
(* (src/playback_generator.py) running on its own QThread, and the slots   *)
(* of StockChartApp (src/main.py) that serve it on the GUI thread.         *)
(*                                                                         *)
(* The worker thread and the GUI thread interleave freely.  A signal       *)
(* emitted by the worker towards a GUI slot is a queued connection: it is  *)
(* appended to the GUI thread's event queue (mainQ) and dispatched later,  *)
(* in FIFO order, either from the GUI event loop or from a nested          *)
(* QApplication.processEvents() call.  QThread.msleep(20) is a worker step *)
(* like any other: nothing bounds the time the GUI thread needs.           *)
(*                                                                         *)
(* A frame path temp_dir/frame_NNNNN.png is represented by its frame       *)
(* number; the bar timestamps by the bar positions (strictly increasing).  *)
(* The progress signal is logged where it is emitted; its slot only moves  *)
(* a progress bar, so it is not put in mainQ.  The message box that        *)
(* _on_playback_finished shows at its end is not modelled.                 *)
(*                                                                         *)
(* The trend analyzer (src/trend_analyzer.py) is a pair of functions of    *)
(* their arguments: _find_swing_points, which is scipy.signal.find_peaks   *)
(* (local maxima, then the distance condition, then the prominence         *)
(* condition), and _generate_trend_line_segments; find_trend_lines calls  *)
(* the first on the lows and the highs and the second on what it finds.    *)
(* SpecDetect, SpecBuild, SpecChain and SpecTrend draw the arguments in    *)
(* the initial state and apply the functions; prices and heights are small *)
(* integers, timestamps are UTC seconds.                                   *)
(*                                                                         *)
(* SpecApp is a session of the application: start requests, the jobs they  *)
(* create one after the other, and the Cancel button.  SpecAppLive adds    *)
(* that the worker's thread runs and the GUI thread dispatches its events. *)
(***************************************************************************)
EXTENDS Integers, Sequences, FiniteSets, TLC

\* Longest series handed to the worker.
MaxBars == 12

\* How often run() is invoked on one worker instance (SpecReuse only).
MaxRuns == 2

\* Longest series of the frame-loop specification: total_bars // 20 exceeds
\* 10 from 220 bars on.
MaxSeries == 230

\* Longest series handed to _find_swing_points.
MaxLen == 6

\* Most rows of a DataFrame handed to _generate_trend_line_segments, and
\* most swing indices handed to it.
MaxRows == 2
MaxSwings == 3

\* Most rows of a DataFrame handed to find_trend_lines (seven rows hold
\* three swing lows), and how often it is called on the same arguments.
MaxTrendRows == 7
MaxCalls == 2

\* Most calls of _start_playback_generation in a session of the application.
MaxStarts == 3

\* Most rows of a frame, and most swing indices, the segment builder is
\* given when its swing indices are chosen freely.
MaxChain == 3
MaxChainSwings == 3

\* stock_data_df is None (otherwise it is the number of rows of the frame).
NoneDF == -1

Max(a, b) == IF a >= b THEN a ELSE b
Min(a, b) == IF a <= b THEN a ELSE b

SpeedNames == {"Slow", "Normal", "Fast", "Very Fast"}

DEFAULT_PLAYBACK_SPEED == "Normal"

\* PLAYBACK_SPEEDS[speed]["step_bars"]
StepBars(speed) ==
    CASE speed = "Slow" -> 1
      [] speed = "Normal" -> 2
      [] speed = "Fast" -> 5
      [] speed = "Very Fast" -> 10

\* __init__: an unknown speed key falls back to the default.
NormaliseSpeed(s) == IF s \in SpeedNames THEN s ELSE DEFAULT_PLAYBACK_SPEED

VARIABLES
    \* --- the worker's constructor arguments
    stock_data_df,      \* NoneDF, or len(stock_data_df)
    index_kind,         \* "datetime": a DatetimeIndex that converts to UTC seconds;
                        \* "unconvertible": a DatetimeIndex whose conversion raises;
                        \* "other": not a DatetimeIndex
    output_filename,    \* "" or a path
    speed_setting,
    \* --- the worker
    pc,                 \* position of run()
    is_running,         \* self._is_running
    frame_paths,        \* self._frame_paths
    temp_dir,           \* run()'s temp_dir is not None
    i,                  \* the loop variable of the frame loop
    frame_count,
    enc_idx,            \* position of the encode loop in frame_paths
    cl_idx,             \* position of the cleanup loop in frame_paths
    \* --- shared between the threads
    cancel_event,       \* threading.Event
    dir_exists,         \* the temporary directory is on disk
    files,              \* frame files on disk
    mainQ,              \* queued slot invocations of the GUI thread
    \* --- the GUI thread
    mstack,             \* active _handle_export_frame_request calls, innermost last
    playback_worker,    \* self._playback_worker is not None
    playback_thread,    \* self._playback_thread is not None
    controls_enabled,   \* what _set_controls_enabled was last called with
    \* --- what the worker emitted or called
    requests,           \* request_export_frame emissions of the instance
    progress,           \* progress emissions of the instance
    finished,           \* finished emissions of the instance
    last_error,         \* the error text of the last "Error during ..." emission
    writer_opened,      \* imageio.get_writer was called
    encoded,            \* frames appended to the writer
    \* --- history
    runs,               \* invocations of run() so far
    state,              \* Idle, Running, Completed, Cancelled, Failed
    cancel_at,          \* where run() was when the cancel flag was first set
    render_failed,      \* export_chart_to_png failed on the frame the worker sleeps on
    enc_fail,           \* kinds of failure the encode loop has skipped over
    export_log,         \* frames in the order their files were written
    obs_files,          \* files on disk when the frame loop observed the flag
    starts,             \* calls of _start_playback_generation so far
    jobs,               \* workers _start_playback_generation has created
    start_result,       \* how its last call ended
    \* --- trend_analyzer: _find_swing_points
    has_scipy,          \* _has_scipy
    data_series,        \* data_series.values
    distance,
    prominence,         \* NoneProminence, or the required prominence
    peaks_indices,      \* what _find_swing_points returned
    build_peaks,        \* what find_peaks has returned so far, by its arguments
    \* --- trend_analyzer: _generate_trend_line_segments
    data,               \* the rows of the DataFrame: timestamp, Low, High
    data_kind,          \* "datetime": a DatetimeIndex that converts to UTC seconds;
                        \* "unconvertible": a DatetimeIndex whose conversion raises;
                        \* "other": not a DatetimeIndex;
                        \* "no_column": a DatetimeIndex, the price column missing
    swing_indices,
    line_type,          \* "up" or "down"
    lines,              \* the segments appended so far
    pair_i,             \* the loop variable of the pair loop
    ta_pc,              \* position of the _find_swing_points or
                        \* _generate_trend_line_segments call
    \* --- trend_analyzer: find_trend_lines
    ftl_pc,             \* position of find_trend_lines
    all_lines,          \* all_lines, and the list returned
    calls,              \* calls of find_trend_lines so far
    call_log,           \* the list each finished call returned
    swing_log           \* what each _find_swing_points call of find_trend_lines returned

playbackVars == <<stock_data_df, index_kind, output_filename, speed_setting,
          pc, is_running, frame_paths, temp_dir, i, frame_count, enc_idx, cl_idx,
          cancel_event, dir_exists, files, mainQ, mstack, playback_worker,
          requests, progress, finished, last_error, writer_opened, encoded,
          runs, state, cancel_at, render_failed, enc_fail, export_log, obs_files,
          playback_thread, controls_enabled, starts, jobs, start_result>>

detectVars == <<has_scipy, data_series, distance, prominence, peaks_indices, build_peaks>>
buildVars == <<data, data_kind, swing_indices, line_type, lines, pair_i>>
ftlVars == <<ftl_pc, all_lines, calls, call_log, swing_log>>
trendVars == <<detectVars, buildVars, ftlVars, ta_pc>>

vars == <<playbackVars, trendVars>>

appVars == <<playback_thread, controls_enabled, starts, jobs, start_result>>
inputVars == <<stock_data_df, index_kind, output_filename, speed_setting>>
workerVars == <<pc, is_running, frame_paths, temp_dir, i, frame_count, enc_idx, cl_idx>>
emitVars == <<requests, progress, finished, last_error, writer_opened, encoded>>

\* ------------------------------------------------------------------------
\* Quantities run() computes from its inputs
\* ------------------------------------------------------------------------

total_bars == stock_data_df

step_bars == StepBars(speed_setting)

\* Variant of InitialBars taking a tenth of the series instead of a twentieth.
InitialBars_TenPercent(total) == Max(10, total \div 10)

\* initial_bars = max(10, total_bars // 20)
InitialBars(total) == Max(10, total \div 20)

initial_bars == InitialBars(total_bars)

\* Variant of NumFrames that rounds the quotient down.
NumFrames_Floor(total, step) == (total - InitialBars(total)) \div step

\* num_frames = (total_bars - initial_bars + step_bars - 1) // step_bars
NumFrames(total, step) == (total - InitialBars(total) + step - 1) \div step

num_frames == NumFrames(total_bars, step_bars)

\* len(range(initial_bars, total_bars + step_bars, step_bars))
LoopLength(total, step) ==
    IF total + step <= InitialBars(total) THEN 0
    ELSE (total + step - InitialBars(total) + step - 1) \div step

\* The checks of run() that raise before the temporary directory is made.
ValidationError ==
    CASE stock_data_df = NoneDF \/ stock_data_df = 0 -> "No stock data available for playback."
      [] output_filename = "" -> "Output filename not specified."
      [] index_kind = "other" -> "Stock data index must be DatetimeIndex for playback."
      [] index_kind = "unconvertible" -> "Failed to get timestamps from data index"
      [] OTHER -> "ok"

\* Where run() is, as recorded when the cancel flag is first set.
Phase ==
    CASE pc = "idle" -> "prestart"
      [] pc \in {"emit", "sleep"} -> "loop"
      [] pc = "loop_check" -> IF i < total_bars + step_bars THEN "loop" ELSE "post_loop"
      [] pc \in {"after_loop", "open_writer"} -> "post_loop"
      [] pc = "encode" -> "encode"
      [] pc \in {"cleanup", "cleanup_files"} -> "cleanup"
      [] OTHER -> "done"

\* cancel_event.set()
SetCancel ==
    /\ cancel_event' = TRUE
    /\ cancel_at' = IF cancel_event THEN cancel_at ELSE Phase

ReqEvent(k) == [type |-> "req", frame |-> k]
FinishedEvent == [type |-> "finished", frame |-> 0]

\* finished.emit(msg): logged, and queued for _on_playback_finished.
EmitFinished(msg, q) ==
    /\ finished' = Append(finished, msg)
    /\ mainQ' = Append(q, FinishedEvent)

\* except Exception as e: finished.emit(f"Error during playback generation: {e}")
RaiseError(text, q) ==
    /\ EmitFinished("error", q)
    /\ last_error' = text
    /\ state' = "Failed"
    /\ pc' = "cleanup"

\* prominence=None
NoneProminence == -1

\* The worker as __init__ leaves it and the application as
\* _start_playback_generation leaves it, run() not yet entered.
WorkerIdle ==
    /\ pc = "idle"
    /\ is_running = TRUE
    /\ frame_paths = <<>>
    /\ temp_dir = FALSE
    /\ i = 0
    /\ frame_count = 0
    /\ enc_idx = 0
    /\ cl_idx = 0
    /\ cancel_event = FALSE
    /\ dir_exists = FALSE
    /\ files = {}
    /\ mainQ = <<>>
    /\ mstack = <<>>
    /\ playback_worker = TRUE
    /\ requests = <<>>
    /\ progress = <<>>
    /\ finished = <<>>
    /\ last_error = ""
    /\ writer_opened = FALSE
    /\ encoded = <<>>
    /\ runs = 0
    /\ state = "Idle"
    /\ cancel_at = "never"
    /\ render_failed = FALSE
    /\ enc_fail = {}
    /\ export_log = <<>>
    /\ obs_files = {}
    /\ playback_thread = TRUE
    /\ controls_enabled = FALSE
    /\ starts = 1
    /\ jobs = 1
    /\ start_result = "started"

\* find_trend_lines has not been called.
FtlIdle ==
    /\ ftl_pc = "idle"
    /\ all_lines = <<>>
    /\ calls = 0
    /\ call_log = <<>>
    /\ swing_log = <<>>

\* No call of the trend analyzer has been made.
TrendIdle ==
    /\ has_scipy = TRUE
    /\ data_series = <<>>
    /\ distance = 1
    /\ prominence = NoneProminence
    /\ peaks_indices = <<>>
    /\ build_peaks = {}
    /\ data = <<>>
    /\ data_kind = "datetime"
    /\ swing_indices = <<>>
    /\ line_type = "up"
    /\ lines = <<>>
    /\ pair_i = 0
    /\ FtlIdle
    /\ ta_pc = "idle"

\* ------------------------------------------------------------------------
\* Initial state: a worker constructed by __init__, moved to its thread and
\* connected to the GUI slots; nothing has run yet.
\* ------------------------------------------------------------------------

Init ==
    /\ stock_data_df \in {NoneDF} \cup (0..MaxBars)
    /\ index_kind \in {"datetime", "unconvertible", "other"}
    /\ output_filename \in {"", "out.gif"}
    /\ speed_setting \in {NormaliseSpeed(s) : s \in SpeedNames \cup {"Turbo"}}
    /\ WorkerIdle
    /\ TrendIdle

\* ------------------------------------------------------------------------
\* The worker thread: run()
\* ------------------------------------------------------------------------

\* Variant of RunBody that clears the cancel flag on entry.
RunBody_ClearsCancel ==
    /\ is_running' = TRUE
    /\ frame_paths' = <<>>
    /\ frame_count' = 0
    /\ runs' = runs + 1
    /\ IF ValidationError # "ok"
       THEN /\ RaiseError(ValidationError, mainQ)
            /\ temp_dir' = FALSE
            /\ UNCHANGED <<dir_exists, i>>
       ELSE /\ temp_dir' = TRUE
            /\ dir_exists' = TRUE
            /\ i' = initial_bars
            /\ state' = "Running"
            /\ pc' = "loop_check"
            /\ UNCHANGED <<finished, last_error, mainQ>>
    /\ cancel_event' = FALSE
    /\ enc_idx' = 0
    /\ cl_idx' = 0
    /\ writer_opened' = FALSE
    /\ encoded' = <<>>
    /\ cancel_at' = (IF cancel_event THEN "prestart" ELSE "never")
    /\ render_failed' = FALSE
    /\ enc_fail' = {}
    /\ export_log' = <<>>
    /\ obs_files' = {}
    /\ UNCHANGED <<trendVars, appVars, inputVars, files, mstack, playback_worker, requests, progress>>

\* Variant of RunBody that makes the temporary directory before validating.
RunBody_MkdtempFirst ==
    /\ is_running' = TRUE
    /\ frame_paths' = <<>>
    /\ frame_count' = 0
    /\ runs' = runs + 1
    /\ IF ValidationError # "ok"
       THEN /\ RaiseError(ValidationError, mainQ)
            /\ temp_dir' = TRUE
            /\ dir_exists' = TRUE
            /\ UNCHANGED i
       ELSE /\ temp_dir' = TRUE
            /\ dir_exists' = TRUE
            /\ i' = initial_bars
            /\ state' = "Running"
            /\ pc' = "loop_check"
            /\ UNCHANGED <<finished, last_error, mainQ>>
    /\ enc_idx' = 0
    /\ cl_idx' = 0
    /\ writer_opened' = FALSE
    /\ encoded' = <<>>
    /\ cancel_at' = (IF cancel_event THEN "prestart" ELSE "never")
    /\ render_failed' = FALSE
    /\ enc_fail' = {}
    /\ export_log' = <<>>
    /\ obs_files' = {}
    /\ UNCHANGED <<trendVars, appVars, inputVars, cancel_event, files, mstack, playback_worker,
                   requests, progress>>

\* Entry of run() up to the frame loop: reset, validation, setup, mkdtemp.
\* The locals of the call are fresh, and the history of the run starts anew
\* (requests, progress and finished are logs of the instance and are kept).
RunBody ==
    /\ is_running' = TRUE
    /\ frame_paths' = <<>>
    /\ frame_count' = 0
    /\ runs' = runs + 1
    /\ IF ValidationError # "ok"
       THEN /\ RaiseError(ValidationError, mainQ)
            /\ temp_dir' = FALSE
            /\ UNCHANGED <<dir_exists, i>>
       ELSE /\ temp_dir' = TRUE
            /\ dir_exists' = TRUE
            /\ i' = initial_bars
            /\ state' = "Running"
            /\ pc' = "loop_check"
            /\ UNCHANGED <<finished, last_error, mainQ>>
    /\ enc_idx' = 0
    /\ cl_idx' = 0
    /\ writer_opened' = FALSE
    /\ encoded' = <<>>
    /\ cancel_at' = (IF cancel_event THEN "prestart" ELSE "never")
    /\ render_failed' = FALSE
    /\ enc_fail' = {}
    /\ export_log' = <<>>
    /\ obs_files' = {}
    /\ UNCHANGED <<trendVars, appVars, inputVars, cancel_event, files, mstack, playback_worker,
                   requests, progress>>

\* The thread's started signal invokes run() on a fresh worker.
RunValidate ==
    /\ pc = "idle"
    /\ RunBody

\* Variant of LoopCheck whose loop ends with the first i beyond total_bars.
LoopCheck_UpToTotal ==
    /\ pc = "loop_check"
    /\ IF i > total_bars
       THEN /\ pc' = "after_loop"
            /\ UNCHANGED <<is_running, finished, last_error, mainQ, state, obs_files>>
       ELSE IF cancel_event
            THEN /\ EmitFinished("cancelled", mainQ)
                 /\ UNCHANGED last_error
                 /\ is_running' = FALSE
                 /\ state' = "Cancelled"
                 /\ obs_files' = files
                 /\ pc' = "after_loop"
            ELSE /\ pc' = "emit"
                 /\ UNCHANGED <<is_running, finished, last_error, mainQ, state, obs_files>>
    /\ UNCHANGED <<trendVars, appVars, inputVars, runs, frame_paths, temp_dir, i, frame_count, enc_idx, cl_idx,
                   cancel_event, dir_exists, files, mstack, playback_worker,
                   requests, progress, writer_opened, encoded,
                   cancel_at, render_failed, enc_fail, export_log>>

\* Variant of LoopCheck whose cancel branch leaves _is_running set.
LoopCheck_KeepsRunning ==
    /\ pc = "loop_check"
    /\ IF i >= total_bars + step_bars
       THEN /\ pc' = "after_loop"
            /\ UNCHANGED <<is_running, finished, last_error, mainQ, state, obs_files>>
       ELSE IF cancel_event
            THEN /\ EmitFinished("cancelled", mainQ)
                 /\ UNCHANGED last_error
                 /\ UNCHANGED is_running
                 /\ state' = "Cancelled"
                 /\ obs_files' = files
                 /\ pc' = "after_loop"
            ELSE /\ pc' = "emit"
                 /\ UNCHANGED <<is_running, finished, last_error, mainQ, state, obs_files>>
    /\ UNCHANGED <<trendVars, appVars, inputVars, runs, frame_paths, temp_dir, i, frame_count, enc_idx, cl_idx,
                   cancel_event, dir_exists, files, mstack, playback_worker,
                   requests, progress, writer_opened, encoded,
                   cancel_at, render_failed, enc_fail, export_log>>

\* Top of one frame-loop iteration: the range test and the cancel check.
LoopCheck ==
    /\ pc = "loop_check"
    /\ IF i >= total_bars + step_bars
       THEN /\ pc' = "after_loop"
            /\ UNCHANGED <<is_running, finished, last_error, mainQ, state, obs_files>>
       ELSE IF cancel_event
            THEN /\ EmitFinished("cancelled", mainQ)
                 /\ UNCHANGED last_error
                 /\ is_running' = FALSE
                 /\ state' = "Cancelled"
                 /\ obs_files' = files
                 /\ pc' = "after_loop"
            ELSE /\ pc' = "emit"
                 /\ UNCHANGED <<is_running, finished, last_error, mainQ, state, obs_files>>
    /\ UNCHANGED <<trendVars, appVars, inputVars, runs, frame_paths, temp_dir, i, frame_count, enc_idx, cl_idx,
                   cancel_event, dir_exists, files, mstack, playback_worker,
                   requests, progress, writer_opened, encoded,
                   cancel_at, render_failed, enc_fail, export_log>>

\* Variant of EmitRequest that does not clamp the bar index.
EmitRequest_Unclamped ==
    /\ pc = "emit"
    /\ LET current_bar_index == i
       IN  /\ frame_paths' = Append(frame_paths, frame_count)
           /\ requests' = Append(requests, [frame |-> frame_count,
                                            start_ts |-> 0,
                                            end_ts |-> current_bar_index])
           /\ mainQ' = Append(mainQ, ReqEvent(frame_count))
    /\ pc' = "sleep"
    /\ UNCHANGED <<trendVars, appVars, inputVars, runs, is_running, temp_dir, i, frame_count, enc_idx, cl_idx,
                   cancel_event, dir_exists, files, mstack, playback_worker,
                   progress, finished, last_error, writer_opened, encoded,
                   state, cancel_at, render_failed, enc_fail, export_log, obs_files>>

\* The frame's path is recorded and the render request is emitted.
EmitRequest ==
    /\ pc = "emit"
    /\ LET current_bar_index == Min(i, total_bars - 1)
       IN  /\ frame_paths' = Append(frame_paths, frame_count)
           /\ requests' = Append(requests, [frame |-> frame_count,
                                            start_ts |-> 0,
                                            end_ts |-> current_bar_index])
           /\ mainQ' = Append(mainQ, ReqEvent(frame_count))
    /\ pc' = "sleep"
    /\ UNCHANGED <<trendVars, appVars, inputVars, runs, is_running, temp_dir, i, frame_count, enc_idx, cl_idx,
                   cancel_event, dir_exists, files, mstack, playback_worker,
                   progress, finished, last_error, writer_opened, encoded,
                   state, cancel_at, render_failed, enc_fail, export_log, obs_files>>

\* Variant of ProgressPercent that counts the current frame as done.
ProgressPercent_CountsFromOne(fc, nf) == ((fc + 1) * 100) \div Max(1, nf)

\* The whole percentages k for which the double product (k / 100) * 100 is
\* just below k, so that int() yields k - 1.
FloatTruncatesBelow == {29, 57, 58}

\* int((frame_count / max(1, num_frames)) * 100), in double arithmetic: the
\* exact floor, except where the quotient is one of the percentages above.
ProgressPercent(fc, nf) ==
    LET exact == (fc * 100) \div Max(1, nf)
    IN  IF (fc * 100) % Max(1, nf) = 0 /\ exact \in FloatTruncatesBelow
        THEN exact - 1
        ELSE exact

\* QThread.msleep(20), the progress emission, and the step to the next index.
SleepProgress ==
    /\ pc = "sleep"
    /\ progress' = Append(progress, ProgressPercent(frame_count, num_frames))
    /\ frame_count' = frame_count + 1
    /\ i' = i + step_bars
    /\ pc' = "loop_check"
    /\ UNCHANGED <<trendVars, appVars, inputVars, runs, is_running, frame_paths, temp_dir, enc_idx, cl_idx,
                   cancel_event, dir_exists, files, mainQ, mstack, playback_worker,
                   requests, finished, last_error, writer_opened, encoded,
                   state, cancel_at, render_failed, enc_fail, export_log, obs_files>>

\* Variant of AfterLoop without the "if not self._is_running" exit.
AfterLoop_IgnoresCancel ==
    /\ pc = "after_loop"
    /\ IF frame_paths = <<>>
       THEN /\ RaiseError("No frames were generated.", mainQ)
            /\ UNCHANGED progress
       ELSE /\ progress' = Append(progress, 100)
            /\ pc' = "open_writer"
            /\ UNCHANGED <<finished, last_error, mainQ, state>>
    /\ UNCHANGED <<trendVars, appVars, inputVars, runs, is_running, frame_paths, temp_dir, i, frame_count,
                   enc_idx, cl_idx, cancel_event, dir_exists, files, mstack,
                   playback_worker, requests, writer_opened, encoded,
                   cancel_at, render_failed, enc_fail, export_log, obs_files>>

\* After the loop: the cancelled and the no-frames exits, else progress 100.
AfterLoop ==
    /\ pc = "after_loop"
    /\ IF ~is_running
       THEN /\ pc' = "cleanup"
            /\ UNCHANGED <<progress, finished, last_error, mainQ, state>>
       ELSE IF frame_paths = <<>>
            THEN /\ RaiseError("No frames were generated.", mainQ)
                 /\ UNCHANGED progress
            ELSE /\ progress' = Append(progress, 100)
                 /\ pc' = "open_writer"
                 /\ UNCHANGED <<finished, last_error, mainQ, state>>
    /\ UNCHANGED <<trendVars, appVars, inputVars, runs, is_running, frame_paths, temp_dir, i, frame_count,
                   enc_idx, cl_idx, cancel_event, dir_exists, files, mstack,
                   playback_worker, requests, writer_opened, encoded,
                   cancel_at, render_failed, enc_fail, export_log, obs_files>>

\* imageio.get_writer(...): the writer opens, or raises.
OpenWriter ==
    /\ pc = "open_writer"
    /\ writer_opened' = TRUE
    /\ \E ok \in BOOLEAN :
         IF ok
         THEN /\ pc' = "encode"
              /\ enc_idx' = 1
              /\ UNCHANGED <<finished, last_error, mainQ, state>>
         ELSE /\ RaiseError("get_writer failed", mainQ)
              /\ UNCHANGED enc_idx
    /\ UNCHANGED <<trendVars, appVars, inputVars, runs, is_running, frame_paths, temp_dir, i, frame_count, cl_idx,
                   cancel_event, dir_exists, files, mstack, playback_worker,
                   requests, progress, encoded,
                   cancel_at, render_failed, enc_fail, export_log, obs_files>>

\* One iteration of the encode loop, or its end and the success emission.
EncodeStep ==
    /\ pc = "encode"
    /\ IF enc_idx > Len(frame_paths)
       THEN /\ EmitFinished("success", mainQ)
            /\ state' = "Completed"
            /\ pc' = "cleanup"
            /\ UNCHANGED <<enc_idx, encoded, enc_fail, last_error>>
       ELSE IF cancel_event
            THEN /\ state' = "Cancelled"
                 /\ pc' = "cleanup"
                 /\ UNCHANGED <<enc_idx, encoded, enc_fail, finished, last_error, mainQ>>
            ELSE /\ \E io \in {"ok", "read_error", "append_error"} :
                      LET outcome == IF frame_paths[enc_idx] \in files
                                     THEN io ELSE "missing"
                      IN  /\ encoded' = IF outcome = "ok"
                                        THEN Append(encoded, frame_paths[enc_idx])
                                        ELSE encoded
                          /\ enc_fail' = IF outcome = "ok"
                                         THEN enc_fail
                                         ELSE enc_fail \cup {outcome}
                 /\ enc_idx' = enc_idx + 1
                 /\ UNCHANGED <<pc, finished, last_error, mainQ, state>>
    /\ UNCHANGED <<trendVars, appVars, inputVars, runs, is_running, frame_paths, temp_dir, i, frame_count, cl_idx,
                   cancel_event, dir_exists, files, mstack, playback_worker,
                   requests, progress, writer_opened,
                   cancel_at, render_failed, export_log, obs_files>>

\* finally: is there a temporary directory to clean up.
CleanupBegin ==
    /\ pc = "cleanup"
    /\ IF temp_dir /\ dir_exists
       THEN /\ pc' = "cleanup_files"
            /\ cl_idx' = 1
            /\ UNCHANGED is_running
       ELSE /\ pc' = "done"
            /\ is_running' = FALSE
            /\ UNCHANGED cl_idx
    /\ UNCHANGED <<trendVars, appVars, inputVars, runs, frame_paths, temp_dir, i, frame_count, enc_idx,
                   cancel_event, dir_exists, files, mainQ, mstack, playback_worker,
                   emitVars, state, cancel_at, render_failed, enc_fail, export_log, obs_files>>

\* if os.path.exists(frame_path): os.remove(frame_path)
CleanupFile ==
    /\ pc = "cleanup_files"
    /\ cl_idx <= Len(frame_paths)
    /\ files' = files \ {frame_paths[cl_idx]}
    /\ cl_idx' = cl_idx + 1
    /\ UNCHANGED <<trendVars, appVars, inputVars, runs, pc, is_running, frame_paths, temp_dir, i, frame_count,
                   enc_idx, cancel_event, dir_exists, mainQ, mstack, playback_worker,
                   emitVars, state, cancel_at, render_failed, enc_fail, export_log, obs_files>>

\* os.rmdir(temp_dir): fails on a directory that is not empty (the error is
\* caught and printed); then self._is_running = False and run() returns.
CleanupRmdir ==
    /\ pc = "cleanup_files"
    /\ cl_idx > Len(frame_paths)
    /\ dir_exists' = IF files = {} THEN FALSE ELSE dir_exists
    /\ is_running' = FALSE
    /\ pc' = "done"
    /\ UNCHANGED <<trendVars, appVars, inputVars, runs, frame_paths, temp_dir, i, frame_count, enc_idx, cl_idx,
                   cancel_event, files, mainQ, mstack, playback_worker,
                   emitVars, state, cancel_at, render_failed, enc_fail, export_log, obs_files>>

\* Variant of stop() that also emits the cancellation notice itself.
Stop_EmitsFinished ==
    /\ SetCancel
    /\ EmitFinished("cancelled", mainQ)
    /\ UNCHANGED <<trendVars, appVars, inputVars, runs, workerVars, dir_exists, files, mstack,
                   playback_worker, requests, progress, last_error, writer_opened,
                   encoded, state, render_failed, enc_fail, export_log, obs_files>>

\* stop(): callable from any thread at any time.
Stop ==
    /\ SetCancel
    /\ UNCHANGED <<trendVars, appVars, inputVars, runs, workerVars, dir_exists, files, mainQ, mstack,
                   playback_worker, emitVars, state, render_failed, enc_fail, export_log,
                   obs_files>>

\* ------------------------------------------------------------------------
\* The GUI thread
\* ------------------------------------------------------------------------

\* The GUI thread is in its event loop, or inside the processEvents() call of
\* the innermost active _handle_export_frame_request.
CanDispatch == IF mstack = <<>> THEN TRUE ELSE mstack[Len(mstack)].at = "pe"

\* _handle_export_frame_request, from its entry to processEvents(): a request
\* that finds the cancel flag set is ignored; otherwise the view is updated.
HandleExportFrameRequest ==
    /\ CanDispatch
    /\ mainQ # <<>>
    /\ Head(mainQ).type = "req"
    /\ mainQ' = Tail(mainQ)
    /\ mstack' = IF cancel_event
                 THEN mstack
                 ELSE Append(mstack, [frame |-> Head(mainQ).frame, at |-> "pe"])
    /\ UNCHANGED <<trendVars, appVars, inputVars, runs, workerVars, cancel_event, dir_exists, files,
                   playback_worker, emitVars, state, cancel_at, render_failed, enc_fail,
                   export_log, obs_files>>

\* processEvents() returns once no event is pending.
ProcessEventsReturn ==
    /\ mstack # <<>>
    /\ mstack[Len(mstack)].at = "pe"
    /\ mainQ = <<>>
    /\ mstack' = [mstack EXCEPT ![Len(mstack)].at = "export"]
    /\ UNCHANGED <<trendVars, appVars, inputVars, runs, workerVars, cancel_event, dir_exists, files, mainQ,
                   playback_worker, emitVars, state, cancel_at, render_failed, enc_fail,
                   export_log, obs_files>>

\* The rest of _handle_export_frame_request: export_chart_to_png(frame_filepath).
\*   "ok"   the exporter writes the file (only into an existing directory);
\*   "fail" export_chart_to_png logs the error and returns None;
\*   "exc"  the handler itself raises and calls _cancel_playback_generation
\*          when a worker is registered.
ExportFrame ==
    /\ mstack # <<>>
    /\ mstack[Len(mstack)].at = "export"
    /\ LET k == mstack[Len(mstack)].frame
       IN  \E outcome \in {"ok", "fail", "exc"} :
             /\ IF outcome = "ok" /\ dir_exists
                THEN /\ files' = files \cup {k}
                     /\ export_log' = Append(export_log, k)
                ELSE UNCHANGED <<files, export_log>>
             /\ render_failed' = (render_failed \/ (/\ outcome = "fail"
                                                     /\ dir_exists
                                                     /\ pc = "sleep"
                                                     /\ frame_count = k))
             /\ IF outcome = "exc" /\ playback_worker
                THEN SetCancel
                ELSE UNCHANGED <<cancel_event, cancel_at>>
    /\ mstack' = SubSeq(mstack, 1, Len(mstack) - 1)
    /\ UNCHANGED <<trendVars, appVars, inputVars, runs, workerVars, dir_exists, mainQ, playback_worker,
                   emitVars, state, enc_fail, obs_files>>

\* _on_playback_finished: the controls are enabled again and the application
\* forgets the thread and the worker.
OnPlaybackFinished ==
    /\ CanDispatch
    /\ mainQ # <<>>
    /\ Head(mainQ).type = "finished"
    /\ mainQ' = Tail(mainQ)
    /\ controls_enabled' = TRUE
    /\ playback_thread' = FALSE
    /\ playback_worker' = FALSE
    /\ UNCHANGED <<trendVars, starts, jobs, start_result, inputVars, runs, workerVars, cancel_event, dir_exists, files, mstack,
                   emitVars, state, cancel_at, render_failed, enc_fail, export_log, obs_files>>

\* The Cancel button: _cancel_playback_generation, which disables the button.
CancelPlaybackGeneration ==
    /\ CanDispatch
    /\ playback_worker
    /\ ~cancel_event
    /\ SetCancel
    /\ UNCHANGED <<trendVars, appVars, inputVars, runs, workerVars, dir_exists, files, mainQ, mstack,
                   playback_worker, emitVars, state, render_failed, enc_fail, export_log,
                   obs_files>>

Next ==
    \/ RunValidate
    \/ LoopCheck
    \/ EmitRequest
    \/ SleepProgress
    \/ AfterLoop
    \/ OpenWriter
    \/ EncodeStep
    \/ CleanupBegin
    \/ CleanupFile
    \/ CleanupRmdir
    \/ Stop
    \/ HandleExportFrameRequest
    \/ ProcessEventsReturn
    \/ ExportFrame
    \/ OnPlaybackFinished
    \/ CancelPlaybackGeneration

Spec == Init /\ [][Next]_vars

\* ------------------------------------------------------------------------
\* A caller that invokes run() again on an instance whose run() has returned.
\* Nothing in run() refuses this: it resets _is_running and _frame_paths and
\* starts over.  The caller is taken to wait until the GUI thread has drained
\* the previous run's events and the previous run left nothing on disk.
\* The series are the missing one and those of 10 and 11 bars (one and two
\* frames at speed Slow).
\* ------------------------------------------------------------------------

InitReuse ==
    /\ Init
    /\ stock_data_df \in {NoneDF, 10, 11}
    /\ speed_setting = "Slow"
    /\ index_kind = "datetime"

ReRun ==
    /\ pc = "done"
    /\ runs < MaxRuns
    /\ mainQ = <<>>
    /\ mstack = <<>>
    /\ files = {}
    /\ ~dir_exists
    /\ RunBody

NextReuse == Next \/ ReRun

SpecReuse == InitReuse /\ [][NextReuse]_vars

\* ------------------------------------------------------------------------
\* The frame loop of run() on its own, for series of up to MaxSeries bars at
\* every speed: a valid job that is never cancelled, followed from the call
\* of run() to the step after the loop.  The GUI thread's events stay queued.
\* ------------------------------------------------------------------------

InitSeries ==
    /\ stock_data_df \in 1..MaxSeries
    /\ index_kind = "datetime"
    /\ output_filename = "out.gif"
    /\ speed_setting \in SpeedNames
    /\ WorkerIdle
    /\ TrendIdle

NextSeries ==
    \/ RunValidate
    \/ LoopCheck
    \/ EmitRequest
    \/ SleepProgress
    \/ AfterLoop

SpecSeries == InitSeries /\ [][NextSeries]_vars

\* ------------------------------------------------------------------------
\* The application: _start_playback_generation creates the worker and its
\* thread, _on_playback_finished forgets them.  A session starts with no
\* worker and makes up to MaxStarts start requests.  A request that passes
\* the checks is taken to arrive when the GUI thread is in its event loop
\* with no event of an earlier worker pending.  An earlier worker that has
\* sent its notification may still be removing its frame files, in its own
\* directory and on its own thread; it emits nothing further and is not
\* followed once the next worker is created.  The application never calls
\* stop().
\* ------------------------------------------------------------------------

\* len(self._current_stock_data), or NoneDF before the first fetch
AppSeries == {NoneDF, 1, 10, 11}

\* self.playback_speed_combo.currentText()
AppSpeeds == {"Slow", "Fast"}

\* No worker has been created.
NoWorker ==
    /\ pc = "none"
    /\ is_running = FALSE
    /\ frame_paths = <<>>
    /\ temp_dir = FALSE
    /\ i = 0
    /\ frame_count = 0
    /\ enc_idx = 0
    /\ cl_idx = 0
    /\ cancel_event = FALSE
    /\ dir_exists = FALSE
    /\ files = {}
    /\ mainQ = <<>>
    /\ mstack = <<>>
    /\ playback_worker = FALSE
    /\ requests = <<>>
    /\ progress = <<>>
    /\ finished = <<>>
    /\ last_error = ""
    /\ writer_opened = FALSE
    /\ encoded = <<>>
    /\ runs = 0
    /\ state = "Idle"
    /\ cancel_at = "never"
    /\ render_failed = FALSE
    /\ enc_fail = {}
    /\ export_log = <<>>
    /\ obs_files = {}
    /\ playback_thread = FALSE
    /\ controls_enabled = TRUE
    /\ starts = 0
    /\ jobs = 0
    /\ start_result = "none"

\* The call returns without a worker.
StartRefused(why) ==
    /\ start_result' = why
    /\ UNCHANGED <<inputVars, workerVars, cancel_event, dir_exists, files, mainQ,
                   mstack, playback_worker, emitVars, runs, state, cancel_at,
                   render_failed, enc_fail, export_log, obs_files,
                   playback_thread, controls_enabled, jobs>>

\* A new cancel event, worker and thread; the controls are disabled and the
\* thread is started, its started signal being connected to run().
StartWorker(filename, speed) ==
    /\ output_filename' = filename
    /\ speed_setting' = speed
    /\ cancel_event' = FALSE
    /\ pc' = "idle"
    /\ is_running' = TRUE
    /\ frame_paths' = <<>>
    /\ temp_dir' = FALSE
    /\ i' = 0
    /\ frame_count' = 0
    /\ enc_idx' = 0
    /\ cl_idx' = 0
    /\ dir_exists' = FALSE
    /\ files' = {}
    /\ playback_worker' = TRUE
    /\ playback_thread' = TRUE
    /\ requests' = <<>>
    /\ progress' = <<>>
    /\ finished' = <<>>
    /\ last_error' = ""
    /\ writer_opened' = FALSE
    /\ encoded' = <<>>
    /\ runs' = 0
    /\ state' = "Idle"
    /\ cancel_at' = "never"
    /\ render_failed' = FALSE
    /\ enc_fail' = {}
    /\ export_log' = <<>>
    /\ obs_files' = {}
    /\ controls_enabled' = FALSE
    /\ jobs' = jobs + 1
    /\ start_result' = "started"
    /\ UNCHANGED <<stock_data_df, index_kind, mainQ, mstack>>

\* _start_playback_generation, busy standing for its test of the registered
\* thread: no data, a registered thread or a dismissed file dialog end the
\* call; otherwise the worker is created.
StartWith(busy) ==
    /\ CanDispatch
    /\ starts < MaxStarts
    /\ starts' = starts + 1
    /\ IF stock_data_df = NoneDF \/ stock_data_df = 0
       THEN StartRefused("no_data")
       ELSE IF busy
            THEN StartRefused("busy")
            ELSE /\ mstack = <<>>
                 /\ mainQ = <<>>
                 /\ \E filename \in {"", "out.gif"} :
                      IF filename = ""
                      THEN StartRefused("no_file")
                      ELSE \E speed \in AppSpeeds : StartWorker(filename, speed)
    /\ UNCHANGED trendVars

\* Variant of _start_playback_generation without the test of the registered
\* thread.
StartPlaybackGeneration_NoBusyTest == StartWith(FALSE)

StartPlaybackGeneration == StartWith(playback_thread)

InitApp ==
    /\ stock_data_df \in AppSeries
    /\ index_kind = "datetime"
    /\ output_filename = ""
    /\ speed_setting = DEFAULT_PLAYBACK_SPEED
    /\ NoWorker
    /\ TrendIdle

\* run(), on the worker's thread
WorkerStep ==
    \/ RunValidate
    \/ LoopCheck
    \/ EmitRequest
    \/ SleepProgress
    \/ AfterLoop
    \/ OpenWriter
    \/ EncodeStep
    \/ CleanupBegin
    \/ CleanupFile
    \/ CleanupRmdir

\* The queued slot invocations, on the GUI thread
GuiStep ==
    \/ HandleExportFrameRequest
    \/ ProcessEventsReturn
    \/ ExportFrame
    \/ OnPlaybackFinished

NextApp ==
    \/ StartPlaybackGeneration
    \/ CancelPlaybackGeneration
    \/ WorkerStep
    \/ GuiStep

SpecApp == InitApp /\ [][NextApp]_vars

\* The worker's thread runs, and the GUI thread's event loop dispatches what
\* is queued; the user is under no obligation.
SpecAppLive == SpecApp /\ WF_vars(WorkerStep) /\ WF_vars(GuiStep)

\* ------------------------------------------------------------------------
\* trend_analyzer: _find_swing_points, which is scipy.signal.find_peaks with
\* the distance and prominence conditions.  Indices are those of the array,
\* from 0.
\* ------------------------------------------------------------------------

RECURSIVE SeqsOfLen(_, _)
SeqsOfLen(S, n) ==
    IF n = 0 THEN {<<>>}
    ELSE {Append(q, v) : q \in SeqsOfLen(S, n - 1), v \in S}

SeqsUpTo(S, n) == UNION {SeqsOfLen(S, k) : k \in 0..n}

SetMin(S) == CHOOSE m \in S : \A k \in S : m <= k
SetMax(S) == CHOOSE m \in S : \A k \in S : k <= m

RECURSIVE Ascending(_)
Ascending(S) ==
    IF S = {} THEN <<>>
    ELSE LET m == SetMin(S) IN <<m>> \o Ascending(S \ {m})

\* x[k] of the array x
At(x, k) == x[k + 1]

\* Variant of LocalMaxima that looks at the sample before only.
LocalMaxima_RisingOnly(x) ==
    {k \in 1..(Len(x) - 2) : At(x, k - 1) < At(x, k)}

\* The local maxima find_peaks starts from: of every run of equal samples
\* with a smaller sample directly before and directly after it, the middle
\* sample (rounded down).  The first and the last sample are never in it.
LocalMaxima(x) ==
    LET inner == 1..(Len(x) - 2)
        plateaus == {pr \in inner \X inner :
                        /\ pr[1] <= pr[2]
                        /\ \A k \in pr[1]..pr[2] : At(x, k) = At(x, pr[1])
                        /\ At(x, pr[1] - 1) < At(x, pr[1])
                        /\ At(x, pr[2] + 1) < At(x, pr[2])}
    IN  {(pr[1] + pr[2]) \div 2 : pr \in plateaus}

\* The prominence of peak p: its height above the higher of the two lowest
\* samples met walking left and right from p, each walk ending before the
\* first sample higher than the peak or at the end of the array.
Prominence(x, p) ==
    LET higherLeft == {k \in 0..(p - 1) : At(x, k) > At(x, p)}
        higherRight == {k \in (p + 1)..(Len(x) - 1) : At(x, k) > At(x, p)}
        from == IF higherLeft = {} THEN 0 ELSE SetMax(higherLeft) + 1
        to == IF higherRight = {} THEN Len(x) - 1 ELSE SetMin(higherRight) - 1
        left_min == SetMin({At(x, k) : k \in from..p})
        right_min == SetMin({At(x, k) : k \in p..to})
    IN  At(x, p) - Max(left_min, right_min)

\* The distance condition: peaks are visited from the highest down; a
\* visited peak that is still kept removes every other peak closer than d
\* samples to it.  The order among peaks of equal height is that of an
\* unstable argsort, so every order is taken: the result is the set of the
\* outcomes.
RECURSIVE KeepByDistance(_, _, _, _)
KeepByDistance(cand, kept, x, d) ==
    IF cand = {} THEN {kept}
    ELSE UNION {KeepByDistance({k \in cand \ {j} : k - j >= d \/ j - k >= d},
                               kept \cup {j}, x, d) :
                    j \in {c \in cand : \A k \in cand : At(x, k) <= At(x, c)}}

\* Variant of SelectByPeakDistance that removes no peak.
SelectByPeakDistance_KeepsAll(peaks, x, d) == {peaks}

SelectByPeakDistance(peaks, x, d) == KeepByDistance(peaks, {}, x, d)

\* The prominence condition; prominence=None leaves the peaks as they are.
SelectByProminence(peaks, x, pmin) ==
    IF pmin = NoneProminence THEN peaks
    ELSE {p \in peaks : Prominence(x, p) >= pmin}

\* find_peaks(x, distance=d, prominence=pmin): the local maxima, then the
\* distance condition, then the prominence condition, in this order; the
\* arrays it can return.
FindPeaks(x, d, pmin) ==
    {Ascending(SelectByProminence(spaced, x, pmin)) :
        spaced \in SelectByPeakDistance(LocalMaxima(x), x, d)}

Heights == 0..3
Distances == 0..3
Prominences == {NoneProminence, 1, 2}

\* _find_swing_points: empty without scipy, for an empty series, and when
\* find_peaks raises (a distance below 1); else what find_peaks returns.
\* find_peaks is a function of its arguments: called again with arguments
\* it has seen, it returns what it returned then.
FindSwingPoints ==
    /\ ta_pc = "detect"
    /\ IF ~has_scipy \/ data_series = <<>> \/ distance < 1
       THEN peaks_indices' = <<>> /\ UNCHANGED build_peaks
       ELSE LET args == <<data_series, distance, prominence>>
                seen == {m \in build_peaks : m.args = args}
            IN  IF seen # {}
                THEN /\ peaks_indices' = (CHOOSE m \in seen : TRUE).peaks
                     /\ UNCHANGED build_peaks
                ELSE /\ peaks_indices' \in FindPeaks(data_series, distance, prominence)
                     /\ build_peaks' = build_peaks \cup
                            {[args |-> args, peaks |-> peaks_indices']}
    /\ ta_pc' = "detected"
    /\ UNCHANGED <<playbackVars, has_scipy, data_series, distance, prominence,
                   buildVars, ftlVars>>

InitDetect ==
    /\ stock_data_df = NoneDF
    /\ index_kind = "datetime"
    /\ output_filename = ""
    /\ speed_setting = DEFAULT_PLAYBACK_SPEED
    /\ WorkerIdle
    /\ has_scipy \in BOOLEAN
    /\ data_series \in SeqsUpTo(Heights, MaxLen)
    /\ distance \in Distances
    /\ prominence \in Prominences
    /\ peaks_indices = <<>>
    /\ build_peaks = {}
    /\ data = <<>>
    /\ data_kind = "datetime"
    /\ swing_indices = <<>>
    /\ line_type = "up"
    /\ lines = <<>>
    /\ pair_i = 0
    /\ FtlIdle
    /\ ta_pc = "detect"

NextDetect == FindSwingPoints

SpecDetect == InitDetect /\ [][NextDetect]_vars

\* ------------------------------------------------------------------------
\* trend_analyzer: _generate_trend_line_segments
\* ------------------------------------------------------------------------

Timestamps == 0..1
Prices == 0..1

\* A row of the DataFrame: its index entry as UTC seconds, Low and High.
Rows == {r \in [ts : Timestamps, Low : Prices, High : Prices] : r.Low <= r.High}

\* The row a Python index selects, counted from 0; a negative index counts
\* from the end.
Position(idx, n) == IF idx >= 0 THEN idx ELSE n + idx

\* Indexing raises IndexError.
OutOfRange(idx, n) == Position(idx, n) < 0 \/ Position(idx, n) >= n

PriceCol(type) == IF type = "up" THEN "Low" ELSE "High"

\* Variant of PairValid that asks for a price that moves, not one that may
\* stay.
PairValid_StrictSlope(ts1, ts2, p1, p2, type) ==
    /\ ~(ts1 >= ts2)
    /\ \/ (type = "up" /\ p2 > p1)
       \/ (type = "down" /\ p2 < p1)

\* Variant of PairValid without the "ts1 >= ts2" skip.
PairValid_IgnoresTime(ts1, ts2, p1, p2, type) ==
    \/ (type = "up" /\ p2 >= p1)
    \/ (type = "down" /\ p2 <= p1)

\* The pair is kept: time advances and the price moves with the line type.
PairValid(ts1, ts2, p1, p2, type) ==
    /\ ~(ts1 >= ts2)
    /\ \/ (type = "up" /\ p2 >= p1)
       \/ (type = "down" /\ p2 <= p1)

\* The early returns, else the start of the pair loop.
GenerateBegin ==
    /\ ta_pc = "generate"
    /\ lines' = <<>>
    /\ IF \/ Len(swing_indices) < 2
          \/ data_kind = "other"
          \/ data_kind = "no_column"
          \/ data_kind = "unconvertible"
       THEN ta_pc' = "generated" /\ UNCHANGED pair_i
       ELSE ta_pc' = "pairs" /\ pair_i' = 0
    /\ UNCHANGED <<playbackVars, detectVars, data, data_kind, swing_indices, line_type,
                   ftlVars>>

\* One iteration of the pair loop, or its end and the return.
PairStep ==
    /\ ta_pc = "pairs"
    /\ IF pair_i >= Len(swing_indices) - 1
       THEN ta_pc' = "generated" /\ UNCHANGED <<lines, pair_i>>
       ELSE LET idx1 == swing_indices[pair_i + 1]
                idx2 == swing_indices[pair_i + 2]
                n == Len(data)
            IN  /\ IF \/ idx1 >= n
                      \/ idx2 >= n
                      \/ OutOfRange(idx1, n)
                      \/ OutOfRange(idx2, n)
                   THEN UNCHANGED lines
                   ELSE LET r1 == data[Position(idx1, n) + 1]
                            r2 == data[Position(idx2, n) + 1]
                            p1 == r1[PriceCol(line_type)]
                            p2 == r2[PriceCol(line_type)]
                        IN  IF PairValid(r1.ts, r2.ts, p1, p2, line_type)
                            THEN lines' = Append(lines,
                                     [type |-> line_type,
                                      start_ts |-> r1.ts, start_p |-> p1,
                                      end_ts |-> r2.ts, end_p |-> p2])
                            ELSE UNCHANGED lines
                /\ pair_i' = pair_i + 1
                /\ UNCHANGED ta_pc
    /\ UNCHANGED <<playbackVars, detectVars, data, data_kind, swing_indices, line_type,
                   ftlVars>>

InitBuild ==
    /\ stock_data_df = NoneDF
    /\ index_kind = "datetime"
    /\ output_filename = ""
    /\ speed_setting = DEFAULT_PLAYBACK_SPEED
    /\ WorkerIdle
    /\ has_scipy = TRUE
    /\ data_series = <<>>
    /\ distance = 1
    /\ prominence = NoneProminence
    /\ peaks_indices = <<>>
    /\ build_peaks = {}
    /\ data \in SeqsUpTo(Rows, MaxRows)
    /\ data_kind \in {"datetime", "unconvertible", "other", "no_column"}
    /\ swing_indices \in SeqsUpTo((0 - 1)..Len(data), MaxSwings)
    /\ line_type \in {"up", "down"}
    /\ lines = <<>>
    /\ pair_i = 0
    /\ FtlIdle
    /\ ta_pc = "generate"

NextBuild == GenerateBegin \/ PairStep

SpecBuild == InitBuild /\ [][NextBuild]_vars

\* ------------------------------------------------------------------------
\* trend_analyzer: find_trend_lines, which calls the two functions above.
\* The frames have a strictly increasing index: the timestamp of a row is
\* its position.
\* ------------------------------------------------------------------------

LowPrices == 0..1
HighPrices == 1..2

\* The frames of n rows, each row at most one price unit high.
RECURSIVE FramesOfLen(_)
FramesOfLen(n) ==
    IF n = 0 THEN {<<>>}
    ELSE {Append(f, [ts |-> n - 1, Low |-> p[1], High |-> p[2]]) :
             f \in FramesOfLen(n - 1),
             p \in {q \in LowPrices \X HighPrices : q[2] - q[1] <= 1}}

\* data[col] as an array
RECURSIVE Column(_, _)
Column(d, col) ==
    IF d = <<>> THEN <<>>
    ELSE Append(Column(SubSeq(d, 1, Len(d) - 1), col), d[Len(d)][col])

\* -series
RECURSIVE Negated(_)
Negated(x) ==
    IF x = <<>> THEN <<>>
    ELSE Append(Negated(SubSeq(x, 1, Len(x) - 1)), 0 - x[Len(x)])

\* return all_lines (or the [] of an early return)
ReturnLines(result) ==
    /\ all_lines' = result
    /\ ftl_pc' = "returned"
    /\ call_log' = Append(call_log, result)

\* _find_swing_points(highs, ...) is called next.
DetectHighs ==
    /\ data_series' = Column(data, "High")
    /\ ta_pc' = "detect"
    /\ ftl_pc' = "highs"

\* Variant of FindTrendLinesBegin whose all_lines outlives the call.
FindTrendLinesBegin_KeepsLines ==
    /\ ftl_pc = "call"
    /\ IF \/ ~has_scipy
          \/ data_kind = "not_frame"
          \/ data = <<>>
          \/ data_kind = "no_column"
          \/ data_kind = "other"
       THEN /\ ReturnLines(<<>>)
            /\ UNCHANGED <<data_series, ta_pc>>
       ELSE /\ data_series' = Negated(Column(data, "Low"))
            /\ ta_pc' = "detect"
            /\ ftl_pc' = "lows"
            /\ UNCHANGED <<all_lines, call_log>>
    /\ UNCHANGED <<playbackVars, has_scipy, distance, prominence, peaks_indices,
                   build_peaks, buildVars, calls, swing_log>>

\* The validation of find_trend_lines, all_lines = [], and the call of
\* _find_swing_points(-lows, ...).
FindTrendLinesBegin ==
    /\ ftl_pc = "call"
    /\ IF \/ ~has_scipy
          \/ data_kind = "not_frame"
          \/ data = <<>>
          \/ data_kind = "no_column"
          \/ data_kind = "other"
       THEN /\ ReturnLines(<<>>)
            /\ UNCHANGED <<data_series, ta_pc>>
       ELSE /\ all_lines' = <<>>
            /\ data_series' = Negated(Column(data, "Low"))
            /\ ta_pc' = "detect"
            /\ ftl_pc' = "lows"
            /\ UNCHANGED call_log
    /\ UNCHANGED <<playbackVars, has_scipy, distance, prominence, peaks_indices,
                   build_peaks, buildVars, calls, swing_log>>

\* swing_low_indices is back: the builder is called for "up" if there is
\* more than one, else the highs are searched.
SwingLowsFound ==
    /\ ftl_pc = "lows"
    /\ ta_pc = "detected"
    /\ swing_log' = Append(swing_log, peaks_indices)
    /\ IF Len(peaks_indices) > 1
       THEN /\ swing_indices' = peaks_indices
            /\ line_type' = "up"
            /\ ta_pc' = "generate"
            /\ ftl_pc' = "up"
            /\ UNCHANGED data_series
       ELSE /\ DetectHighs
            /\ UNCHANGED <<swing_indices, line_type>>
    /\ UNCHANGED <<playbackVars, has_scipy, distance, prominence, peaks_indices,
                   build_peaks, data, data_kind, lines, pair_i,
                   all_lines, calls, call_log>>

\* all_lines.extend(uptrend_lines), then the highs are searched.
UpLinesGenerated ==
    /\ ftl_pc = "up"
    /\ ta_pc = "generated"
    /\ all_lines' = all_lines \o lines
    /\ DetectHighs
    /\ UNCHANGED <<playbackVars, has_scipy, distance, prominence, peaks_indices,
                   build_peaks, buildVars, calls, call_log, swing_log>>

\* swing_high_indices is back: the builder is called for "down" if there is
\* more than one, else all_lines is returned.
SwingHighsFound ==
    /\ ftl_pc = "highs"
    /\ ta_pc = "detected"
    /\ swing_log' = Append(swing_log, peaks_indices)
    /\ IF Len(peaks_indices) > 1
       THEN /\ swing_indices' = peaks_indices
            /\ line_type' = "down"
            /\ ta_pc' = "generate"
            /\ ftl_pc' = "down"
            /\ UNCHANGED <<all_lines, call_log>>
       ELSE /\ ReturnLines(all_lines)
            /\ ta_pc' = "idle"
            /\ UNCHANGED <<swing_indices, line_type>>
    /\ UNCHANGED <<playbackVars, detectVars, data, data_kind, lines, pair_i, calls>>

\* Variant of DownLinesGenerated that puts the downtrend lines in front.
DownLinesGenerated_Prepends ==
    /\ ftl_pc = "down"
    /\ ta_pc = "generated"
    /\ ReturnLines(lines \o all_lines)
    /\ ta_pc' = "idle"
    /\ UNCHANGED <<playbackVars, detectVars, buildVars, calls, swing_log>>

\* all_lines.extend(downtrend_lines) and the return.
DownLinesGenerated ==
    /\ ftl_pc = "down"
    /\ ta_pc = "generated"
    /\ ReturnLines(all_lines \o lines)
    /\ ta_pc' = "idle"
    /\ UNCHANGED <<playbackVars, detectVars, buildVars, calls, swing_log>>

\* The caller calls find_trend_lines again with the same arguments.
CallAgain ==
    /\ ftl_pc = "returned"
    /\ calls < MaxCalls
    /\ calls' = calls + 1
    /\ ftl_pc' = "call"
    /\ UNCHANGED <<playbackVars, detectVars, buildVars, ta_pc,
                   all_lines, call_log, swing_log>>

TrendDistances == 1..2
TrendProminences == {NoneProminence, 1}

InitTrend ==
    /\ stock_data_df = NoneDF
    /\ index_kind = "datetime"
    /\ output_filename = ""
    /\ speed_setting = DEFAULT_PLAYBACK_SPEED
    /\ WorkerIdle
    /\ has_scipy \in BOOLEAN
    /\ data_series = <<>>
    /\ distance \in TrendDistances
    /\ prominence \in TrendProminences
    /\ peaks_indices = <<>>
    /\ build_peaks = {}
    /\ data \in UNION {FramesOfLen(n) : n \in 0..MaxTrendRows}
    /\ data_kind \in {"datetime", "unconvertible", "other", "no_column", "not_frame"}
    /\ swing_indices = <<>>
    /\ line_type = "up"
    /\ lines = <<>>
    /\ pair_i = 0
    /\ ta_pc = "idle"
    /\ ftl_pc = "call"
    /\ all_lines = <<>>
    /\ calls = 1
    /\ call_log = <<>>
    /\ swing_log = <<>>

NextTrend ==
    \/ FindTrendLinesBegin
    \/ FindSwingPoints
    \/ SwingLowsFound
    \/ GenerateBegin
    \/ PairStep
    \/ UpLinesGenerated
    \/ SwingHighsFound
    \/ DownLinesGenerated
    \/ CallAgain

SpecTrend == InitTrend /\ [][NextTrend]_vars

\* _generate_trend_line_segments on a frame with a strictly increasing index
\* and freely chosen swing indices.
InitChain ==
    /\ stock_data_df = NoneDF
    /\ index_kind = "datetime"
    /\ output_filename = ""
    /\ speed_setting = DEFAULT_PLAYBACK_SPEED
    /\ WorkerIdle
    /\ has_scipy = TRUE
    /\ data_series = <<>>
    /\ distance = 1
    /\ prominence = NoneProminence
    /\ peaks_indices = <<>>
    /\ build_peaks = {}
    /\ data \in UNION {FramesOfLen(n) : n \in 0..MaxChain}
    /\ data_kind = "datetime"
    /\ swing_indices \in SeqsUpTo((0 - 1)..Len(data), MaxChainSwings)
    /\ line_type \in {"up", "down"}
    /\ lines = <<>>
    /\ pair_i = 0
    /\ ta_pc = "generate"
    /\ FtlIdle

SpecChain == InitChain /\ [][NextBuild]_vars

\* ------------------------------------------------------------------------
\* Properties
\* ------------------------------------------------------------------------

Range(f) == {f[n] : n \in 1..Len(f)}

\* The handling of a request is over: emitted, no longer queued, not active.
RenderSettled(k) ==
    /\ \E n \in 1..Len(requests) : requests[n].frame = k
    /\ \A n \in 1..Len(mainQ) : mainQ[n] # ReqEvent(k)
    /\ \A n \in 1..Len(mstack) : mstack[n].frame # k

\* C1: every execution of run() emits finished exactly once, however the job
\* ends (Completed, Failed, Cancelled in the frame loop, Cancelled while
\* encoding).
C1_FinishedExactlyOnce ==
    pc = "done" => Len(finished) = 1

\* C2: the worker emits the request for the next frame, or opens the writer,
\* only after the GUI thread is through with the current frame's request.
C2_SynchronousHandoff ==
    \A n \in 1..Len(requests) :
        (n < Len(requests) \/ writer_opened) => RenderSettled(requests[n].frame)

\* C3: at most one render request is being handled at any time, and frame
\* files are written in increasing frame order.
C3_OneFrameAtATimeInOrder ==
    /\ Len(mstack) <= 1
    /\ \A m, n \in 1..Len(export_log) : m < n => export_log[m] < export_log[n]

\* C4 as claimed: a cancellation requested while the frame loop is running
\* ends the job Cancelled, with no request after the observing iteration, the
\* Encoder never invoked, and every frame file written until then deleted
\* (jobs in which nothing raised an error).
C4_CancelDuringLoop ==
    (cancel_at = "loop" /\ pc = "done" /\ last_error = "") =>
        /\ state = "Cancelled"
        /\ Len(requests) = frame_count
        /\ ~writer_opened
        /\ obs_files \cap files = {}

\* C4 as amended: once the check at the top of a frame-loop iteration finds
\* the flag set, the job is Cancelled with that one notification, no further
\* request is emitted, the writer is never opened and nothing is encoded, and
\* when run() has returned every file that was on disk at the observation is
\* gone.
C4_CancelObservedInLoop ==
    "cancelled" \in Range(finished) =>
        /\ state = "Cancelled"
        /\ finished = <<"cancelled">>
        /\ Len(requests) = frame_count
        /\ ~writer_opened
        /\ encoded = <<>>
        /\ pc \in {"after_loop", "cleanup", "cleanup_files", "done"}
        /\ (pc = "done" => obs_files \cap files = {})

C4_Witness ==
    /\ pc = "done"
    /\ finished = <<"cancelled">>
    /\ cancel_at = "loop"
    /\ obs_files # {}
    /\ Len(requests) < LoopLength(total_bars, step_bars)

\* C5: a frame the Renderer failed to materialize makes the job end Failed
\* with an error notification, never Completed with a success notification.
C5_RenderFailureFailsJob ==
    render_failed =>
        /\ state # "Completed"
        /\ "success" \notin Range(finished)
        /\ (pc = "done" => state = "Failed" /\ finished = <<"error">>)

\* C6: once run() has returned, no frame file and no temporary directory of
\* the job is on disk.
C6_NoResidueAfterRun ==
    pc = "done" => (files = {} /\ ~dir_exists)

\* What run() does when no cancellation is ever requested: the number of
\* render requests it emits.
UncancelledRequests ==
    IF ValidationError # "ok" THEN 0 ELSE LoopLength(total_bars, step_bars)

\* C7 as claimed: a cancellation requested before validation has completed
\* changes nothing: the job emits the requests of an uncancelled run and does
\* not end Cancelled.
C7_EarlyCancelHasNoEffect ==
    (cancel_at = "prestart" /\ pc = "done") =>
        /\ Len(requests) = UncancelledRequests
        /\ state # "Cancelled"

\* C7 as amended: a cancellation requested before validation has completed
\* is kept.  Validation still decides first (Failed, its error text); a job
\* that passes it and has a frame to request is Cancelled by the first loop
\* iteration, with one cancellation notice, no request and no encoding; a
\* job with no loop iteration fails for lack of frames.
C7_EarlyCancelIsKept ==
    (cancel_at = "prestart" /\ pc = "done") =>
        /\ requests = <<>>
        /\ ~writer_opened
        /\ IF ValidationError # "ok"
           THEN state = "Failed" /\ finished = <<"error">> /\ last_error = ValidationError
           ELSE IF LoopLength(total_bars, step_bars) = 0
                THEN /\ state = "Failed"
                     /\ finished = <<"error">>
                     /\ last_error = "No frames were generated."
                ELSE state = "Cancelled" /\ finished = <<"cancelled">>

C7_Witness ==
    /\ pc = "done"
    /\ cancel_at = "prestart"
    /\ state = "Cancelled"
    /\ UncancelledRequests > 1

\* C8: a cancellation set while frames remain to be encoded stops the encode
\* and is reported to the caller as a cancellation.
C8_EncodeCancelReported ==
    (cancel_at = "encode" /\ pc = "done" /\ enc_idx <= Len(frame_paths)) =>
        /\ state = "Cancelled"
        /\ finished = <<"cancelled">>

\* C9: a job that fails validation is Failed with the validation error as
\* its one notification; no request is emitted, no temporary directory is
\* created and the writer is never opened.
C9_ValidationFailure ==
    (ValidationError # "ok" /\ pc # "idle") =>
        /\ state = "Failed"
        /\ finished = <<"error">>
        /\ last_error = ValidationError
        /\ requests = <<>>
        /\ ~temp_dir
        /\ ~dir_exists
        /\ ~writer_opened
        /\ pc \in {"cleanup", "done"}

C9_Witness ==
    /\ pc = "done"
    /\ stock_data_df > 0
    /\ output_filename = ""
    /\ state = "Failed"

\* C10 as claimed: once run() has returned, nothing changes the state or
\* adds a request, a progress event or a notification.
C10_TerminalIsFinal ==
    [][pc = "done" => UNCHANGED <<state, requests, progress, finished>>]_vars

\* C10 as amended: once run() has returned, stop() and the GUI thread's
\* remaining work change neither the state nor the requests, progress events
\* and notifications; only another invocation of run() does.
C10_TerminalFinalButForRun ==
    [][(pc = "done" /\ pc' = "done") =>
           UNCHANGED <<state, requests, progress, finished>>]_vars

C10_Witness ==
    /\ pc = "done"
    /\ cancel_at = "done"
    /\ state = "Completed"
    /\ Len(requests) > 1

\* C11: a failure at encode time (a recorded frame file that is missing, an
\* error reading a frame, an error appending it) makes the job end Failed
\* with the error as its notification (jobs in which no cancellation was
\* ever requested).
C11_EncodeFailureFailsJob ==
    (pc = "done" /\ enc_fail # {} /\ cancel_at = "never") =>
        /\ state = "Failed"
        /\ finished = <<"error">>

\* C12: a frame that cannot be read is skipped and the job can still end
\* Completed, whereas a failure of the writer, to open the output or to
\* append a frame, ends the job Failed (jobs in which no cancellation was
\* ever requested).
C12_SkipUnreadableAbortOnWriter ==
    (pc = "done" /\ writer_opened /\ cancel_at = "never") =>
        /\ (enc_idx = 0 \/ "append_error" \in enc_fail) =>
               (state = "Failed" /\ finished = <<"error">>)
        /\ (enc_idx > 0 /\ "append_error" \notin enc_fail) =>
               (state = "Completed" /\ finished = <<"success">>)

\* C13: the writer is opened only after the frame loop has run all its
\* iterations with none of them observing a cancellation, and the frames
\* appended to the writer are recorded paths already passed by the encode
\* loop, in increasing frame order, none of them twice.
C13_EncodeAfterLoopInOrder ==
    /\ writer_opened =>
          /\ (pc = "encode" => is_running)
          /\ "cancelled" \notin Range(finished)
          /\ pc \in {"encode", "cleanup", "cleanup_files", "done"}
          /\ Len(frame_paths) = LoopLength(total_bars, step_bars)
          /\ frame_paths # <<>>
    /\ encoded # <<>> => writer_opened
    /\ \A n \in 1..Len(encoded) :
          \E m \in 1..Len(frame_paths) :
              /\ m < enc_idx
              /\ frame_paths[m] = encoded[n]
    /\ \A m, n \in 1..Len(encoded) : m < n => encoded[m] < encoded[n]
    /\ \A m, n \in 1..Len(frame_paths) : m < n => frame_paths[m] < frame_paths[n]

C13_Witness ==
    /\ pc = "done"
    /\ state = "Completed"
    /\ Len(frame_paths) = 3
    /\ encoded = frame_paths
    /\ cancel_at = "never"

\* The frame loop of a valid job has ended without observing a cancellation.
LoopRanOut ==
    /\ ValidationError = "ok"
    /\ pc \in {"after_loop", "open_writer"}
    /\ is_running

CeilDiv(a, b) == IF a % b = 0 THEN a \div b ELSE (a \div b) + 1

\* max(10, totalBars / 20) with integer division.
TwentiethOrTen ==
    IF total_bars \div 20 > 10 THEN total_bars \div 20 ELSE 10

C16_ProgressInRange ==
    \A n \in 1..Len(progress) : progress[n] \in 0..100

C16_Witness ==
    /\ total_bars < initial_bars
    /\ num_frames <= 0
    /\ pc = "open_writer"
    /\ progress = <<0, 100>>

\* C17: every segment the builder has appended ends later than it starts;
\* an up segment does not end lower than it starts, a down segment does not
\* end higher; for every swing-index sequence (repeated, decreasing,
\* negative and too large indices included) and every frame.
C17_SegmentsAdvance ==
    \A n \in 1..Len(lines) :
        /\ lines[n].end_ts > lines[n].start_ts
        /\ lines[n].type = "up" => lines[n].end_p >= lines[n].start_p
        /\ lines[n].type = "down" => lines[n].end_p <= lines[n].start_p

C17_Witness ==
    /\ ta_pc = "generated"
    /\ Len(swing_indices) = 3
    /\ swing_indices[1] > swing_indices[2]
    /\ swing_indices[2] = swing_indices[3]
    /\ Len(lines) = 1
    /\ lines[1].type = "down"

\* _find_swing_points has returned what find_peaks computed.
Detected ==
    /\ ta_pc = "detected"
    /\ has_scipy
    /\ data_series # <<>>
    /\ distance >= 1

\* C18: the prominence filter comes before the distance suppression: what is
\* returned is the distance suppression applied to the candidates of
\* sufficient prominence only, so that every such candidate is returned or
\* has a returned index closer than distance to it.
C18_ProminenceBeforeDistance ==
    Detected =>
        /\ peaks_indices \in
              {Ascending(spaced) :
                  spaced \in SelectByPeakDistance(
                      SelectByProminence(LocalMaxima(data_series), data_series,
                                         prominence),
                      data_series, distance)}
        /\ \A p \in SelectByProminence(LocalMaxima(data_series), data_series, prominence) :
              \E n \in 1..Len(peaks_indices) :
                  /\ peaks_indices[n] - p < distance
                  /\ p - peaks_indices[n] < distance

\* C19: the returned indices are in ascending order and any two of them are
\* at least distance apart, for every series and every distance >= 1.
C19_AscendingAndSpaced ==
    (ta_pc = "detected" /\ distance >= 1) =>
        \A m, n \in 1..Len(peaks_indices) :
            m < n => /\ peaks_indices[m] < peaks_indices[n]
                     /\ peaks_indices[n] - peaks_indices[m] >= distance

C19_Witness ==
    /\ Detected
    /\ distance = 3
    /\ prominence = 1
    /\ Cardinality(LocalMaxima(data_series)) = 2
    /\ Len(peaks_indices) = 2
    /\ peaks_indices[2] - peaks_indices[1] = 3

\* C20: the first and the last index are candidates: with no prominence
\* filter and distance 1 (nothing is suppressed), a first sample higher than
\* the second and a last sample higher than the one before it are returned.
C20_EdgesAreCandidates ==
    (Detected /\ prominence = NoneProminence /\ distance = 1
              /\ Len(data_series) >= 2) =>
        /\ At(data_series, 0) > At(data_series, 1) =>
              peaks_indices # <<>> /\ peaks_indices[1] = 0
        /\ At(data_series, Len(data_series) - 1) > At(data_series, Len(data_series) - 2) =>
              peaks_indices # <<>>
              /\ peaks_indices[Len(peaks_indices)] = Len(data_series) - 1

\* C21: in the list find_trend_lines builds, the uptrend segments come first
\* in increasing order of their swing index (the index of a row is its
\* timestamp here), then the downtrend segments likewise; no downtrend
\* segment precedes an uptrend segment.
C21_UpThenDownInOrder ==
    \A m, n \in 1..Len(all_lines) :
        m < n =>
            /\ ~(all_lines[m].type = "down" /\ all_lines[n].type = "up")
            /\ all_lines[m].type = all_lines[n].type =>
                   all_lines[m].start_ts < all_lines[n].start_ts

C21_Witness ==
    /\ ftl_pc = "returned"
    /\ Len(all_lines) = 3
    /\ all_lines[1].type = "up"
    /\ all_lines[2].type = "up"
    /\ all_lines[3].type = "down"

\* The swing indices all select a row, and from each to the next the
\* timestamp strictly increases and the reference price moves with the line
\* type or stays.
SwingsChain ==
    LET n == Len(data)
    IN  /\ \A j \in 1..Len(swing_indices) :
               swing_indices[j] < n /\ ~OutOfRange(swing_indices[j], n)
        /\ \A j \in 1..(Len(swing_indices) - 1) :
               LET r1 == data[Position(swing_indices[j], n) + 1]
                   r2 == data[Position(swing_indices[j + 1], n) + 1]
               IN  /\ r1.ts < r2.ts
                   /\ IF line_type = "up" THEN r1.Low <= r2.Low
                                          ELSE r1.High >= r2.High

\* The segment from swing point j to swing point j + 1.
SegmentOf(j) ==
    LET n == Len(data)
        r1 == data[Position(swing_indices[j], n) + 1]
        r2 == data[Position(swing_indices[j + 1], n) + 1]
    IN  [type |-> line_type,
         start_ts |-> r1.ts, start_p |-> r1[PriceCol(line_type)],
         end_ts |-> r2.ts, end_p |-> r2[PriceCol(line_type)]]

\* C22: for n >= 2 swing indices the builder examines exactly the n - 1
\* adjacent pairs, every segment it returns connects a swing point to the
\* next one, and when the timestamps strictly increase and the reference
\* price is monotone over the swing points it returns exactly n - 1
\* segments, the j-th from swing j to swing j + 1.
C22_AdjacentPairsOnly ==
    (ta_pc = "generated" /\ Len(swing_indices) >= 2) =>
        LET n == Len(data)
            pairs == 1..(Len(swing_indices) - 1)
        IN  /\ pair_i = Len(swing_indices) - 1
            /\ \A m \in 1..Len(lines) :
                   \E j \in pairs :
                       /\ swing_indices[j] < n /\ ~OutOfRange(swing_indices[j], n)
                       /\ swing_indices[j + 1] < n /\ ~OutOfRange(swing_indices[j + 1], n)
                       /\ lines[m] = SegmentOf(j)
            /\ SwingsChain =>
                   /\ Len(lines) = Len(swing_indices) - 1
                   /\ \A j \in pairs : lines[j] = SegmentOf(j)

C22_Witness ==
    /\ ta_pc = "generated"
    /\ line_type = "up"
    /\ swing_indices = <<0, 1, 2>>
    /\ Len(data) = 3
    /\ data[1].Low = data[2].Low
    /\ data[2].Low < data[3].Low
    /\ Len(lines) = 2

Unimodal(x, p) ==
    /\ \A k \in 0..(p - 1) : At(x, k) < At(x, k + 1)
    /\ \A k \in p..(Len(x) - 2) : At(x, k) > At(x, k + 1)

\* C24: for a series strictly increasing up to one interior index p and
\* strictly decreasing after it, detection with distance 1 and no prominence
\* returns exactly [p].
C24_SinglePeak ==
    (Detected /\ distance = 1 /\ prominence = NoneProminence) =>
        \A p \in 1..(Len(data_series) - 2) :
            Unimodal(data_series, p) => peaks_indices = <<p>>

C24_Witness ==
    /\ Detected
    /\ distance = 1
    /\ prominence = NoneProminence
    /\ Len(data_series) = MaxLen
    /\ Unimodal(data_series, 3)
    /\ peaks_indices = <<3>>

\* The input of find_trend_lines is of the wrong type or shape: not a
\* DataFrame, without the High and Low columns, or with an index that is not
\* a DatetimeIndex.
Malformed == data_kind \in {"not_frame", "no_column", "other"}

\* C25: malformed input (not a table, missing High/Low columns, non-datetime
\* index) produces an outcome the caller can tell from the empty list that
\* is returned when no swing points or segments are found.
C25_MalformedIsDistinguished ==
    (ftl_pc = "returned" /\ Malformed) => call_log[Len(call_log)] # <<>>

\* The k-th render request (k from 0) of a run whose loop starts at
\* initial_bars: frame k, from the first bar to bar min(i, total_bars - 1).
RequestOf(k) ==
    [frame |-> k, start_ts |-> 0,
     end_ts |-> Min(initial_bars + k * step_bars, total_bars - 1)]

\* C26 as claimed: an uncancelled run emits one render request for each index
\* i = initial_bars, initial_bars + step_bars, ... with i <= total_bars and
\* for no other index; the k-th carries frame index k, the first bar's
\* timestamp and the timestamp of bar min(i, total_bars - 1).
C26_RequestsUpToTotal ==
    LoopRanOut =>
        /\ Len(requests) = IF initial_bars > total_bars THEN 0
                           ELSE (total_bars - initial_bars) \div step_bars + 1
        /\ \A k \in 0..(Len(requests) - 1) : requests[k + 1] = RequestOf(k)

\* C26 as amended: the indices are those with i < total_bars + step_bars, so
\* one index beyond total_bars is requested whenever total_bars - initial_bars
\* is not a multiple of step_bars.
C26_RequestsBelowTotalPlusStep ==
    LoopRanOut =>
        /\ Len(requests) = IF initial_bars >= total_bars + step_bars THEN 0
                           ELSE CeilDiv(total_bars + step_bars - initial_bars, step_bars)
        /\ \A k \in 0..(Len(requests) - 1) : requests[k + 1] = RequestOf(k)

C26_Witness ==
    /\ LoopRanOut
    /\ total_bars = 12
    /\ step_bars = 5
    /\ requests = <<[frame |-> 0, start_ts |-> 0, end_ts |-> 10],
                    [frame |-> 1, start_ts |-> 0, end_ts |-> 11]>>

\* C27: every job that passes validation and is not cancelled requests at
\* least one frame, also when the series has fewer bars than initial_bars,
\* and never fails for lack of frames.
C27_AtLeastOneFrame ==
    /\ LoopRanOut => requests # <<>>
    /\ last_error # "No frames were generated."

\* C28: in an uncancelled run the end timestamps of successive render
\* requests never decrease (each request is compared with the one before it
\* when it is emitted), and once the loop has run out with at least one
\* request, the last request ends at the last bar of the series.
C28_EndsAdvanceToLastBar ==
    /\ Len(requests) >= 2 =>
           requests[Len(requests) - 1].end_ts <= requests[Len(requests)].end_ts
    /\ (LoopRanOut /\ requests # <<>>) =>
           requests[Len(requests)].end_ts = total_bars - 1

C28_Witness ==
    /\ LoopRanOut
    /\ total_bars = 23
    /\ step_bars = 5
    /\ Len(requests) = 4
    /\ requests[3].end_ts = 20
    /\ requests[4].end_ts = 22

\* C29: at most one playback job is active. _start_playback_generation
\* creates a worker and a thread only when no thread is registered, and
\* registers them; a start request made while a thread is registered creates
\* no worker, emits no render request and leaves the running job as it is; a
\* worker that has not yet sent its notification is the registered one.
C29_OneJobAtATime ==
    /\ [][jobs' # jobs =>
              /\ ~playback_thread
              /\ jobs' = jobs + 1
              /\ playback_thread' /\ playback_worker']_vars
    /\ [][(starts' # starts /\ playback_thread) =>
              /\ start_result' \in {"busy", "no_data"}
              /\ UNCHANGED <<jobs, requests, workerVars, cancel_event,
                             playback_worker, playback_thread, mainQ>>]_vars
    /\ []((pc \notin {"none", "done"} /\ finished = <<>>) =>
              (playback_thread /\ playback_worker))
    /\ [](playback_thread <=> playback_worker)

C29_Witness ==
    /\ jobs = 2
    /\ starts = 3
    /\ start_result = "busy"
    /\ playback_thread
    /\ pc = "sleep"
    /\ Len(requests) = 1

\* The application is released: no thread and no worker registered, the
\* controls enabled.
Released == ~playback_thread /\ ~playback_worker /\ controls_enabled

\* C30: every started playback job eventually releases the application,
\* whatever its outcome and whenever Cancel is pressed: _on_playback_finished
\* runs, thread and worker are reset and the controls are enabled again.
C30_EveryJobReleases == playback_thread ~> Released

====
